---- MODULE Spec2Model ----
(***************************************************************************)
(* Model of the GitHub repository analyzer: github_analyzer.py (the        *)
(* indexing pipeline analyze_and_store_in_pinecone and the functions it    *)
(* calls) and the file filter of scrapping.py.                             *)
(*                                                                         *)
(* Strings the code inspects (paths, repository names, vector ids) are     *)
(* sequences of one-character strings; decoded file content is a sequence  *)
(* of code points.  The hosting API, the embedding model and the vector    *)
(* index are the environment: every HTTP response is chosen when the       *)
(* request is made and remembered in reposResp / treeResp / contentResp,   *)
(* so that a later run of the program sees an unchanged upstream.          *)
(***************************************************************************)
EXTENDS Integers, Sequences, FiniteSets, TLC

VARIABLES
    pc,                 \* position in analyze_and_store_in_pinecone
    profile_url,        \* analyze_and_store_in_pinecone: profile_url
    run,                \* which invocation of the program this is
    variant,            \* which source file's prioritize_files filter ran
    repos,              \* analyze_and_store_in_pinecone: repos
    ri,                 \* index of the current repo in the for loop (line 174)
    bi,                 \* prioritize_files: index of the current branch (line 63)
    files,              \* prioritize_files: files
    prioritized_files,  \* analyze_and_store_in_pinecone: prioritized_files
    fi,                 \* store_prioritized_files_in_pinecone: index of file_info
    file_content,       \* store_prioritized_files_in_pinecone: file_content
    embedding,          \* store_prioritized_files_in_pinecone: embedding
    exc,                \* the exception in flight / caught (NoExc when none)
    out,                \* lines printed to stdout during this run
    calls,              \* external calls made during this run, in order
    index,              \* the Pinecone index: a sequence of records
    reposResp,          \* upstream: response to GET /users/{u}/repos
    treeResp,           \* upstream: responses to GET .../git/trees/{branch}
    contentResp         \* upstream: responses to GET .../contents/{path}

vars == <<pc, profile_url, run, variant, repos, ri, bi, files, prioritized_files, fi,
          file_content, embedding, exc, out, calls, index,
          reposResp, treeResp, contentResp>>

(***************************************************************************)
(* Bounds of the model.                                                    *)
(***************************************************************************)
MaxRuns == 2
MaxTree == 3

(***************************************************************************)
(* Strings.                                                                *)
(***************************************************************************)
\* str.endswith
EndsWith(s, suffix) ==
    /\ Len(suffix) <= Len(s)
    /\ SubSeq(s, Len(s) - Len(suffix) + 1, Len(s)) = suffix

\* the `in` operator on strings
Contains(s, sub) ==
    \E i \in 1..(Len(s) - Len(sub) + 1) : SubSeq(s, i, i + Len(sub) - 1) = sub

\* line 35: "github.com/"
GithubCom == <<"g", "i", "t", "h", "u", "b", ".", "c", "o", "m", "/">>

\* github_analyzer.py line 88 / scrapping.py line 68
prioritized_extensions ==
    << <<".", "p", "y">>, <<".", "j", "s">>, <<".", "j", "a", "v", "a">>,
       <<".", "c", "p", "p">>, <<".", "c">>, <<".", "t", "s">>,
       <<".", "r", "b">>, <<".", "p", "h", "p">> >>

mainOnly == << "main" >>

\* line 60
branches == << "main", "master" >>

\* any(file_path.endswith(ext) for ext in prioritized_extensions)
HasPrioritizedExtension(file_path) ==
    \E k \in 1..Len(prioritized_extensions) :
        EndsWith(file_path, prioritized_extensions[k])

(***************************************************************************)
(* Sizes.  size / 1024 is a true division: the quotient is kept as a       *)
(* fraction and compared exactly.                                          *)
(***************************************************************************)
BytesPerKB == 1024
MaxSizeKB == 1 * 1024
ScrapMaxSizeKB == 5 * 1024

DivKB(size_bytes) == [num |-> size_bytes, den |-> BytesPerKB]
KBLessOrEqual(q, limit) == q.num <= limit * q.den
KBLess(q, limit) == q.num < limit * q.den

\* A tree entry of the hosting API: a dict with 'type', 'path' and an
\* optional 'size' (directories carry none).
Entry(type, path, hasSize, size) ==
    [type |-> type, path |-> path, hasSize |-> hasSize, size |-> size]

\* file.get('size', 0)
GetSize(file) == IF file.hasSize THEN file.size ELSE 0

\* github_analyzer.py, body of the for loop of lines 91-100
AppendIfCodeFile(code_files, file) ==
    IF file.type = "blob"
    THEN LET file_path == file.path
             file_size_kb == DivKB(GetSize(file))
         IN  IF HasPrioritizedExtension(file_path)
             THEN IF KBLess(file_size_kb, MaxSizeKB)
                  THEN Append(code_files,
                              [file |-> file_path, size_kb |-> file_size_kb])
                  ELSE code_files
             ELSE code_files
    ELSE code_files

\* github_analyzer.py lines 85-102: the loop over files, left to right
RECURSIVE FilterFrom(_, _, _)
FilterFrom(fs, k, code_files) ==
    IF k > Len(fs) THEN code_files
    ELSE FilterFrom(fs, k + 1, AppendIfCodeFile(code_files, fs[k]))

PrioritizeFilter(fs) == FilterFrom(fs, 1, << >>)

\* scrapping.py, body of the for loop of lines 72-80 (no type test, 5 MB)
ScrapAppendIfCodeFile(code_files, file) ==
    LET file_path == file.path
        file_size_kb == IF file.hasSize THEN DivKB(file.size) ELSE DivKB(0)
    IN  IF HasPrioritizedExtension(file_path)
        THEN IF KBLess(file_size_kb, ScrapMaxSizeKB)
             THEN Append(code_files,
                         [file |-> file_path, size_kb |-> file_size_kb])
             ELSE code_files
        ELSE code_files

RECURSIVE ScrapFilterFrom(_, _, _)
ScrapFilterFrom(fs, k, code_files) ==
    IF k > Len(fs) THEN code_files
    ELSE ScrapFilterFrom(fs, k + 1, ScrapAppendIfCodeFile(code_files, fs[k]))

ScrapPrioritizeFilter(fs) == ScrapFilterFrom(fs, 1, << >>)

(***************************************************************************)
(* Content decoding (line 117).                                            *)
(***************************************************************************)
DecodeError == [ok |-> FALSE, text |-> << >>]
Decoded(text) == [ok |-> TRUE, text |-> text]

\* bytes.decode('utf-8') on one- and two-byte sequences: an ASCII byte is
\* its own code point, a lead byte C2..DF takes one continuation byte
\* 80..BF, anything else raises UnicodeDecodeError.
RECURSIVE Utf8Decode(_)
Utf8Decode(bytes) ==
    IF bytes = << >> THEN Decoded(<< >>)
    ELSE LET b == Head(bytes)
         IN  IF b < 128
             THEN LET rest == Utf8Decode(Tail(bytes))
                  IN  IF rest.ok THEN Decoded(<<b>> \o rest.text)
                      ELSE DecodeError
             ELSE IF b >= 194 /\ b <= 223 /\ Len(bytes) >= 2
                     /\ bytes[2] >= 128 /\ bytes[2] <= 191
             THEN LET rest == Utf8Decode(Tail(Tail(bytes)))
                  IN  IF rest.ok
                      THEN Decoded(<<(b - 192) * 64 + (bytes[2] - 128)>>
                                   \o rest.text)
                      ELSE DecodeError
             ELSE DecodeError

\* base64.b64decode: the payload's bytes, or binascii.Error when the
\* base64 text is incorrectly padded.
B64Decode(content) ==
    IF content.padOk THEN [ok |-> TRUE, bytes |-> content.bytes]
    ELSE [ok |-> FALSE, bytes |-> << >>]

(***************************************************************************)
(* Embedding and index.                                                    *)
(***************************************************************************)
\* get_embedding: a deterministic function of the text
GetEmbedding(text) == <<"codebert">> \o text

\* line 157: f"{repo_name}/{file_path}"
VectorId(repo_name, file_path) == repo_name \o <<"/">> \o file_path

UpsertAppends(idx, rec) == Append(idx, rec)

\* pinecone_index.upsert: insert, or overwrite the record with the same id
Upsert(idx, rec) ==
    IF \E k \in 1..Len(idx) : idx[k].id = rec.id
    THEN [k \in 1..Len(idx) |-> IF idx[k].id = rec.id THEN rec ELSE idx[k]]
    ELSE Append(idx, rec)

(***************************************************************************)
(* The environment: what the hosting API may answer.                       *)
(***************************************************************************)
\* the profile URLs the program is started with
ProfileUrls ==
    { <<"g", "i", "t", "h", "u", "b", ".", "c", "o", "m", "/", "a", "l", "/">>,
      <<"g", "i", "t", "l", "a", "b", ".", "c", "o", "m", "/", "a", "l">> }

R1 == <<"r", "1">>
R2 == <<"r", "2">>

PathA == <<"a", ".", "p", "y">>
PathB == <<"b", ".", "m", "d">>
PathC == <<"c", ".", "c", "p", "p">>
PathD == <<"d", ".", "j", "s">>
PathE == <<"e", ".", "c">>
PathF == <<"f", ".", "r", "b">>
PathG == <<"g", ".", "t", "s">>
PathLib == <<"l", "i", "b", ".", "j", "s">>
PathPy == <<"p", "y">>
PathPyc == <<"x", ".", "p", "y", "c">>

TreeOne ==
    << Entry("blob", PathA, TRUE, 2 * 1024),
       Entry("blob", PathB, TRUE, 1 * 1024),
       Entry("tree", PathLib, FALSE, 0) >>

TreeTwo ==
    << Entry("blob", PathC, TRUE, 6000 * 1024),
       Entry("blob", PathE, TRUE, 1024 * 1024 - 1),
       Entry("blob", PathF, FALSE, 0) >>

TreeBodies == { << >>, TreeOne, TreeTwo }

\* the entries file selection is exercised on
SelectEntries ==
    { Entry("blob", PathA, TRUE, 2 * 1024),
      Entry("blob", PathB, TRUE, 1 * 1024),
      Entry("blob", PathC, TRUE, 6000 * 1024),
      Entry("blob", PathD, TRUE, 1024 * 1024),
      Entry("blob", PathE, TRUE, 1024 * 1024 - 1),
      Entry("blob", PathF, FALSE, 0),
      Entry("blob", PathG, TRUE, 5 * 1024 * 1024),
      Entry("tree", PathLib, FALSE, 0),
      Entry("blob", PathPy, TRUE, 10),
      Entry("blob", PathPyc, TRUE, 10),
      Entry("commit", PathA, FALSE, 0) }

SeqsUpTo(S, n) == UNION { [1..k -> S] : k \in 0..n }

\* an account's repositories, as the pages the API serves them in
RepoPages ==
    { << << >> >>, << <<R1>> >>, << <<R1, R2>> >>, << <<R1>>, <<R2>> >> }

ReposResponses ==
    { [status |-> 200, pages |-> p] : p \in RepoPages }
        \cup { [status |-> 401, pages |-> << << >> >>] }

TreeResponses ==
    { [status |-> 200, tree |-> t] : t \in TreeBodies }
        \cup { [status |-> s, tree |-> << >>] : s \in {403, 404, 500} }

ContentResponses ==
    { [status |-> 200, padOk |-> TRUE, bytes |-> b] :
          b \in { <<97>>, <<195, 169>>, << >>, <<255>> } }
        \cup { [status |-> 200, padOk |-> FALSE, bytes |-> << >>],
               [status |-> 404, padOk |-> TRUE, bytes |-> << >>] }

NoResp == [status |-> 0]

\* the answer to a request: the one already given, or any the API may give
Answers(memo, key, all) ==
    IF key \in DOMAIN memo THEN {memo[key]} ELSE all

Remember(memo, key, resp) ==
    IF key \in DOMAIN memo THEN memo ELSE memo @@ (key :> resp)

(***************************************************************************)
(* Program state.                                                          *)
(***************************************************************************)
\* an exception: its message's parts and the function that raised it
Exc(kind, origin, repo, branch, status) ==
    [kind |-> kind, origin |-> origin, repo |-> repo, branch |-> branch,
     status |-> status]
NoExc == Exc("none", "", << >>, "", 0)

\* one external call: an HTTP GET (repos, tree, contents), an embedding or
\* an upsert
Call(op, repo, branch, path, status) ==
    [op |-> op, repo |-> repo, branch |-> branch, path |-> path,
     status |-> status]

\* one printed line
Line(kind, repo, branch, path, n) ==
    [kind |-> kind, repo |-> repo, branch |-> branch, path |-> path,
     n |-> n, err |-> NoExc]
ErrorLine(e) ==
    [kind |-> "error", repo |-> << >>, branch |-> "", path |-> << >>,
     n |-> 0, err |-> e]

NoneContent == [isNone |-> TRUE, text |-> << >>]
Text(t) == [isNone |-> FALSE, text |-> t]

IsNotNone(c) == ~c.isNone

\* Python truthiness of file_content (line 153)
Truthy(c) == ~c.isNone /\ c.text # << >>

Locals ==
    /\ repos = << >>
    /\ ri = 0
    /\ bi = 0
    /\ files = << >>
    /\ prioritized_files = << >>
    /\ fi = 0
    /\ file_content = NoneContent
    /\ embedding = << >>
    /\ exc = NoExc
    /\ out = << >>
    /\ calls = << >>

Init ==
    /\ pc = "start"
    /\ profile_url \in ProfileUrls
    /\ run = 1
    /\ variant = "github_analyzer"
    /\ Locals
    /\ index = << >>
    /\ reposResp = NoResp
    /\ treeResp = << >>
    /\ contentResp = << >>

(***************************************************************************)
(* analyze_and_store_in_pinecone, one action per external call.            *)
(***************************************************************************)
\* lines 174-178: enter the loop body for repo k, up to the first request
\* of prioritize_files; past the last repo the function returns.
EnterRepo(rs, k, printed) ==
    IF k <= Len(rs)
    THEN /\ ri' = k
         /\ bi' = 1
         /\ files' = << >>
         /\ out' = Append(printed, Line("processing", rs[k], "", << >>, 0))
         /\ pc' = "list"
    ELSE /\ ri' = k
         /\ bi' = 0
         /\ files' = files
         /\ out' = printed
         /\ pc' = "done"

\* lines 171 and 31-38: extract_username raises ValueError on a URL
\* without "github.com/"
InvalidInput ==
    /\ pc = "start"
    /\ ~Contains(profile_url, GithubCom)
    /\ exc' = Exc("ValueError", "extract_username", << >>, "", 0)
    /\ pc' = "raised"
    /\ UNCHANGED <<profile_url, run, variant, repos, ri, bi, files, prioritized_files, fi,
                   file_content, embedding, out, calls, index,
                   reposResp, treeResp, contentResp>>

ReposServerFailure(status) == status >= 500

\* line 49
ReposRequestFailed(status) == status # 200

\* lines 172 and 41-53: get_repositories makes one request and returns the
\* JSON body of that response, which is the first page
GetRepositories ==
    /\ pc = "start"
    /\ Contains(profile_url, GithubCom)
    /\ \E resp \in (IF reposResp = NoResp THEN ReposResponses
                     ELSE {reposResp}) :
          /\ reposResp' = resp
          /\ calls' = Append(calls, Call("repos", << >>, "", << >>,
                                         resp.status))
          /\ IF ReposRequestFailed(resp.status)
             THEN /\ exc' = Exc("repos_failed", "get_repositories", << >>,
                                "", resp.status)
                  /\ pc' = "raised"
                  /\ UNCHANGED <<repos, ri, bi, files, out>>
             ELSE /\ repos' = resp.pages[1]
                  /\ exc' = exc
                  /\ EnterRepo(resp.pages[1], 1, out)
    /\ UNCHANGED <<profile_url, run, variant, prioritized_files, fi, file_content,
                   embedding, index, treeResp, contentResp>>

\* lines 82-102 and 181: after the branch loop, with fs the listing
AfterBranches(fs, printed) ==
    IF fs = << >>
    THEN /\ exc' = Exc("both_branches", "prioritize_files", repos[ri], "", 0)
         /\ pc' = "raised"
         /\ out' = printed
         /\ UNCHANGED <<prioritized_files, fi>>
    ELSE /\ prioritized_files' = PrioritizeFilter(fs)
         /\ fi' = 1
         /\ exc' = exc
         /\ out' = Append(printed,
                          Line("num_prioritized", repos[ri], "", << >>,
                               Len(PrioritizeFilter(fs))))
         /\ pc' = "store"

\* line 75: the branch that is followed by `continue`
ContinuesToMaster(status, branch) == status = 404 /\ branch = "main"

ServerFailure(status) == status >= 500

\* line 78: the failures that raise
OtherFailure(status) == status # 404

\* lines 63-80: one iteration of the loop over branches.  An iteration that
\* neither breaks nor raises goes on to the next branch, with `continue` or
\* by reaching the end of the loop body; after the last branch the loop ends.
RequestTree ==
    /\ pc = "list"
    /\ LET repo_name == repos[ri]
           branch == branches[bi]
           key == <<repo_name, branch>>
       IN \E resp \in Answers(treeResp, key, TreeResponses) :
            /\ treeResp' = Remember(treeResp, key, resp)
            /\ calls' = Append(calls, Call("tree", repo_name, branch, << >>,
                                           resp.status))
            /\ IF resp.status = 200
               THEN /\ files' = resp.tree
                    /\ bi' = bi
                    /\ AfterBranches(resp.tree,
                          Append(out, Line("tree_ok", repo_name, branch,
                                           << >>, 200)))
               ELSE LET printed == Append(out, Line("tree_failed", repo_name,
                                                    branch, << >>, resp.status))
                    IN  IF ~ContinuesToMaster(resp.status, branch)
                           /\ OtherFailure(resp.status)
                        THEN /\ exc' = Exc("tree_failed", "prioritize_files",
                                           repo_name, branch, resp.status)
                             /\ pc' = "raised"
                             /\ out' = printed
                             /\ UNCHANGED <<bi, files, prioritized_files, fi>>
                        ELSE IF bi < Len(branches)
                        THEN /\ bi' = bi + 1
                             /\ out' = printed
                             /\ UNCHANGED <<pc, exc, files, prioritized_files,
                                            fi>>
                        ELSE /\ UNCHANGED <<bi, files>>
                             /\ AfterBranches(files, printed)
    /\ UNCHANGED <<profile_url, run, variant, repos, ri, file_content, embedding, index,
                   reposResp, contentResp>>

\* lines 149-153 and 106-121: get_file_content for the current file_info
GetFileContent ==
    /\ pc = "store"
    /\ fi <= Len(prioritized_files)
    /\ LET repo_name == repos[ri]
           file_path == prioritized_files[fi].file
           key == <<repo_name, file_path>>
       IN \E resp \in Answers(contentResp, key, ContentResponses) :
            /\ contentResp' = Remember(contentResp, key, resp)
            /\ calls' = Append(calls, Call("contents", repo_name, "",
                                           file_path, resp.status))
            /\ IF resp.status = 200
               THEN LET raw == B64Decode(resp)
                        dec == Utf8Decode(raw.bytes)
                    IN  IF ~raw.ok
                        THEN /\ exc' = Exc("binascii.Error",
                                           "get_file_content", repo_name, "", 0)
                             /\ pc' = "raised"
                             /\ UNCHANGED <<file_content, fi, out>>
                        ELSE IF ~dec.ok
                        THEN /\ exc' = Exc("UnicodeDecodeError",
                                           "get_file_content", repo_name, "", 0)
                             /\ pc' = "raised"
                             /\ UNCHANGED <<file_content, fi, out>>
                        ELSE /\ file_content' = Text(dec.text)
                             /\ IF Truthy(Text(dec.text))
                                THEN pc' = "embed" /\ fi' = fi
                                ELSE pc' = "store" /\ fi' = fi + 1
                             /\ UNCHANGED <<exc, out>>
               ELSE /\ out' = Append(out, Line("content_failed", repo_name, "",
                                               file_path, resp.status))
                    /\ file_content' = NoneContent
                    /\ fi' = fi + 1
                    /\ UNCHANGED <<pc, exc>>
    /\ UNCHANGED <<profile_url, run, variant, repos, ri, bi, files, prioritized_files,
                   embedding, index, reposResp, treeResp>>

\* line 155
Embed ==
    /\ pc = "embed"
    /\ embedding' = GetEmbedding(file_content.text)
    /\ calls' = Append(calls, Call("embed", repos[ri], "",
                                   prioritized_files[fi].file, 0))
    /\ pc' = "upsert"
    /\ UNCHANGED <<profile_url, run, variant, repos, ri, bi, files, prioritized_files, fi,
                   file_content, exc, out, index,
                   reposResp, treeResp, contentResp>>

\* lines 157-160
UpsertVector ==
    /\ pc = "upsert"
    /\ LET repo_name == repos[ri]
           file_path == prioritized_files[fi].file
           vector_id == VectorId(repo_name, file_path)
       IN /\ index' = Upsert(index,
                 [id |-> vector_id, vector |-> embedding,
                  metadata |-> [repo_name |-> repo_name,
                                file_path |-> file_path]])
          /\ calls' = Append(calls, Call("upsert", repo_name, "", file_path,
                                         0))
    /\ fi' = fi + 1
    /\ pc' = "store"
    /\ UNCHANGED <<profile_url, run, variant, repos, ri, bi, files, prioritized_files,
                   file_content, embedding, exc, out,
                   reposResp, treeResp, contentResp>>

\* line 184, then the next iteration of the loop of line 174
FinishRepo ==
    /\ pc = "store"
    /\ fi > Len(prioritized_files)
    /\ EnterRepo(repos, ri + 1,
                 Append(out, Line("stored", repos[ri], "", << >>,
                                  Len(prioritized_files))))
    /\ UNCHANGED <<profile_url, run, variant, repos, prioritized_files, fi, file_content,
                   embedding, exc, calls, index,
                   reposResp, treeResp, contentResp>>

\* lines 186-187: except Exception as e: print(f"Error: {e}")
ExceptHandler ==
    /\ pc = "raised"
    /\ out' = Append(out, ErrorLine(exc))
    /\ pc' = "done"
    /\ UNCHANGED <<profile_url, run, variant, repos, ri, bi, files, prioritized_files, fi,
                   file_content, embedding, exc, calls, index,
                   reposResp, treeResp, contentResp>>

\* lines 191-197: the program is run again with the same profile URL,
\* against the same upstream and the same index
RunAgain ==
    /\ pc = "done"
    /\ run < MaxRuns
    /\ run' = run + 1
    /\ pc' = "start"
    /\ repos' = << >>
    /\ ri' = 0
    /\ bi' = 0
    /\ files' = << >>
    /\ prioritized_files' = << >>
    /\ fi' = 0
    /\ file_content' = NoneContent
    /\ embedding' = << >>
    /\ exc' = NoExc
    /\ out' = << >>
    /\ calls' = << >>
    /\ UNCHANGED <<profile_url, variant, index, reposResp, treeResp, contentResp>>

Next ==
    \/ InvalidInput
    \/ GetRepositories
    \/ RequestTree
    \/ GetFileContent
    \/ Embed
    \/ UpsertVector
    \/ FinishRepo
    \/ ExceptHandler
    \/ RunAgain

Spec == Init /\ [][Next]_vars

(***************************************************************************)
(* File selection on its own: the filter of prioritize_files applied to    *)
(* every listing of at most MaxTree entries, in both source files.         *)
(***************************************************************************)
InitSelect ==
    /\ pc = "select"
    /\ profile_url = << >>
    /\ run = 1
    /\ variant = "github_analyzer"
    /\ repos = << >>
    /\ ri = 0
    /\ bi = 0
    /\ files \in SeqsUpTo(SelectEntries, MaxTree)
    /\ prioritized_files = << >>
    /\ fi = 0
    /\ file_content = NoneContent
    /\ embedding = << >>
    /\ exc = NoExc
    /\ out = << >>
    /\ calls = << >>
    /\ index = << >>
    /\ reposResp = NoResp
    /\ treeResp = << >>
    /\ contentResp = << >>

\* github_analyzer.py lines 85-102
SelectGithubAnalyzer ==
    /\ pc = "select"
    /\ prioritized_files' = PrioritizeFilter(files)
    /\ variant' = "github_analyzer"
    /\ pc' = "selected"
    /\ UNCHANGED <<profile_url, run, repos, ri, bi, files, fi, file_content, embedding,
                   exc, out, calls, index, reposResp, treeResp, contentResp>>

\* scrapping.py lines 64-86
SelectScrapping ==
    /\ pc = "select"
    /\ prioritized_files' = ScrapPrioritizeFilter(files)
    /\ variant' = "scrapping"
    /\ pc' = "selected"
    /\ UNCHANGED <<profile_url, run, repos, ri, bi, files, fi, file_content, embedding,
                   exc, out, calls, index, reposResp, treeResp, contentResp>>

NextSelect ==
    \/ SelectGithubAnalyzer
    \/ SelectScrapping

SpecSelect == InitSelect /\ [][NextSelect]_vars

(***************************************************************************)
(* Properties.  The selection policy is restated here independently of     *)
(* the loop that implements it.                                            *)
(***************************************************************************)
AllowList ==
    { <<".", "p", "y">>, <<".", "j", "s">>, <<".", "j", "a", "v", "a">>,
      <<".", "c", "p", "p">>, <<".", "c">>, <<".", "t", "s">>,
      <<".", "r", "b">>, <<".", "p", "h", "p">> }

\* the path is some prefix followed by an allow-listed extension
PathAllowed(path) ==
    \E ext \in AllowList : \E n \in 0..Len(path) :
        SubSeq(path, 1, n) \o ext = path

\* size in bytes, an entry without a size counting as 0
SizeOrZero(e) == IF e.hasSize THEN e.size ELSE 0

\* "ends with an allow-listed extension and is strictly below the ceiling"
UnderCeiling(e, ceilingKB) == SizeOrZero(e) < ceilingKB * 1024
Qualifies(e, ceilingKB) == PathAllowed(e.path) /\ UnderCeiling(e, ceilingKB)
QualifiesBlob(e, ceilingKB) == e.type = "blob" /\ Qualifies(e, ceilingKB)

CeilingOf(v) == IF v = "github_analyzer" THEN 1024 ELSE 5120

\* res holds exactly the entries of fs at the positions in keep, in order
IsSelectionOf(res, fs, keep) ==
    /\ Len(res) = Cardinality(keep)
    /\ \A i \in keep :
          LET k == Cardinality({j \in keep : j <= i})
          IN  /\ res[k].file = fs[i].path
              \* size_kb is the size in bytes over 1024
              /\ res[k].size_kb.num * 1024
                    = SizeOrZero(fs[i]) * res[k].size_kb.den

\* C4, as claimed: after selection, an entry is in the result if and only
\* if its path ends with an allow-listed extension and its size in KB is
\* strictly below the ceiling (no size counting as 0), in input order.
C4_ExactSelection ==
    pc = "selected" =>
        IsSelectionOf(prioritized_files, files,
            {i \in 1..Len(files) : Qualifies(files[i], CeilingOf(variant))})

\* C4, amended: the same, except that github_analyzer.py selects only
\* entries of type blob; scrapping.py has no such test.  The ceiling is
\* 1024 KB in github_analyzer.py and 5120 KB in scrapping.py.
C4_ExactSelectionOfBlobs ==
    pc = "selected" =>
        IsSelectionOf(prioritized_files, files,
            {i \in 1..Len(files) :
                IF variant = "github_analyzer"
                THEN QualifiesBlob(files[i], 1024)
                ELSE Qualifies(files[i], 5120)})

\* a directory with an allow-listed name is left out by github_analyzer.py
\* while the file after it is selected
C4_Witness ==
    /\ pc = "selected"
    /\ variant = "github_analyzer"
    /\ Len(files) = 2
    /\ files[1].type = "tree"
    /\ Qualifies(files[1], 1024)
    /\ QualifiesBlob(files[2], 1024)
    /\ Len(prioritized_files) = 1
    /\ prioritized_files[1].file = files[2].path

(***************************************************************************)
(* Properties of the pipeline.                                             *)
(***************************************************************************)
Range(s) == { s[i] : i \in DOMAIN s }

RECURSIVE Flatten(_)
Flatten(pages) ==
    IF pages = << >> THEN << >> ELSE Head(pages) \o Flatten(Tail(pages))

\* the calls of one kind made for one repository during this run
CallsFor(op, repo) == SelectSeq(calls, LAMBDA c : c.op = op /\ c.repo = repo)

\* the repository's "Stored n files" line has been printed
Processed(repo) == \E l \in Range(out) : l.kind = "stored" /\ l.repo = repo

\* the enumeration request of this run has been answered
Enumerated == calls # << >> /\ calls[1].op = "repos"

\* C1, as claimed: when the run has ended, every repository listed after
\* one whose file listing failed (prioritize_files raised) was processed.
C1_ListingFailureDoesNotAbortRun ==
    pc = "done" =>
        \A i \in 1..Len(repos) :
            (exc.origin = "prioritize_files" /\ exc.repo = repos[i]) =>
                \A j \in (i + 1)..Len(repos) : Processed(repos[j])

\* C2, as claimed: get_file_content never raises, and when the run has
\* ended every selected file of every repository whose files were being
\* stored has been requested.
C2_ContentFailureSkipsOneFile ==
    /\ exc.origin # "get_file_content"
    /\ pc = "done" =>
          \A l \in Range(out) :
              l.kind = "num_prioritized" =>
                  Len(CallsFor("contents", l.repo)) = l.n

\* C3: when the enumeration request is answered with a status other than
\* 200, get_repositories raises an error carrying that status to
\* analyze_and_store_in_pinecone, whose only output is that error: the
\* enumeration request is the run's only external call (no tree or content
\* request, no embedding, no upsert), no repository is entered and no
\* "Number of prioritized files" or "Stored" line is printed.
C3_EnumerationFailureFailsFast ==
    (Enumerated /\ calls[1].status # 200) =>
        LET e == Exc("repos_failed", "get_repositories", << >>, "",
                     calls[1].status)
        IN  /\ Len(calls) = 1
            /\ exc = e
            /\ repos = << >>
            /\ ri = 0
            /\ pc \in {"raised", "done"}
            /\ pc = "raised" => out = << >>
            /\ pc = "done" => out = << ErrorLine(e) >>

C3_Witness ==
    /\ pc = "done"
    /\ Enumerated
    /\ calls[1].status = 401
    /\ out = << ErrorLine(Exc("repos_failed", "get_repositories", << >>, "",
                               401)) >>

\* the listing of the current repository has returned or raised
ListingOver == ri \in 1..Len(repos) /\ pc \in {"store", "embed", "upsert",
                                                 "raised", "done"}

\* C5: once the listing of a repository is over: if main answered 404 then
\* master was requested; if master then answered 200 with a non-empty tree,
\* the listing used is master's tree and the repository's files are
\* selected from it; if master answered 404 too, the call raised the
\* both-branches error and no selection was made for the repository.
C5_BranchFallback ==
    ListingOver =>
        LET r == repos[ri]
            main == treeResp[<<r, "main">>]
        IN  main.status = 404 =>
              /\ <<r, "master">> \in DOMAIN treeResp
              /\ LET master == treeResp[<<r, "master">>]
                 IN  /\ (master.status = 200 /\ master.tree # << >>) =>
                           /\ files = master.tree
                           /\ exc.origin # "prioritize_files"
                           /\ \E l \in Range(out) :
                                 /\ l.kind = "num_prioritized"
                                 /\ l.repo = r
                     /\ master.status = 404 =>
                           /\ exc = Exc("both_branches", "prioritize_files",
                                        r, "", 0)
                           /\ pc \in {"raised", "done"}
                           /\ files = << >>
                           /\ ~\E l \in Range(out) :
                                 /\ l.kind = "num_prioritized"
                                 /\ l.repo = r

\* r1 was listed from master after main answered 404, and then both
\* branches of r2 answered 404
C5_Witness ==
    /\ pc = "raised"
    /\ repos = <<R1, R2>>
    /\ ri = 2
    /\ treeResp[<<R1, "main">>].status = 404
    /\ treeResp[<<R1, "master">>] = [status |-> 200, tree |-> TreeOne]
    /\ Processed(R1)
    /\ treeResp[<<R2, "main">>].status = 404
    /\ treeResp[<<R2, "master">>].status = 404
    /\ exc.kind = "both_branches"

\* C6: the tree requests made for a repository are main, then possibly
\* master; master is requested only after main answered 404; a 200 answer
\* is the last tree request for the repository and its tree is the
\* listing; an answer other than 200 and 404 is the run's last call and
\* raises the error carrying that branch and status.
C6_BranchOrder ==
    \A r \in Range(repos) :
        LET T == CallsFor("tree", r)
        IN  /\ Len(T) <= 2
            /\ Len(T) >= 1 => T[1].branch = "main"
            /\ Len(T) = 2 => T[2].branch = "master" /\ T[1].status = 404
            /\ \A k \in 1..Len(T) :
                  /\ T[k].status = 200 =>
                        /\ k = Len(T)
                        /\ (ri \in 1..Len(repos) /\ repos[ri] = r) =>
                              files = treeResp[<<r, T[k].branch>>].tree
                  /\ T[k].status \notin {200, 404} =>
                        /\ k = Len(T)
                        /\ calls[Len(calls)] = T[k]
                        /\ pc \in {"raised", "done"}
                        /\ exc = Exc("tree_failed", "prioritize_files", r,
                                     T[k].branch, T[k].status)

\* main answered 404 and master 403: the call was aborted with 403
C6_Witness ==
    /\ pc = "raised"
    /\ ri = 1
    /\ Len(CallsFor("tree", repos[1])) = 2
    /\ CallsFor("tree", repos[1])[1].status = 404
    /\ CallsFor("tree", repos[1])[2].status = 403
    /\ exc.status = 403
    /\ exc.branch = "master"

\* C7, as claimed: a successful enumeration returns the concatenation of
\* all pages of the account's repositories, in page order.
C7_EnumerationFollowsPagination ==
    (Enumerated /\ calls[1].status = 200) =>
        repos = Flatten(reposResp.pages)

\* C8, as claimed: the number of files reported as stored for a repository
\* is the number of records upserted for it.
C8_ReportedEqualsUpserted ==
    \A l \in Range(out) :
        l.kind = "stored" => l.n = Len(CallsFor("upsert", l.repo))

\* the index never holds two records with one id
NoDuplicateIds ==
    \A i, j \in 1..Len(index) : index[i].id = index[j].id => i = j

\* upserting the record about to be written twice is upserting it once
UpsertTwiceIsOnce ==
    pc = "upsert" =>
        LET rec == [id |-> VectorId(repos[ri], prioritized_files[fi].file),
                    vector |-> embedding,
                    metadata |-> [repo_name |-> repos[ri],
                                  file_path |-> prioritized_files[fi].file]]
        IN  Upsert(Upsert(index, rec), rec) = Upsert(index, rec)

\* an upsert leaves exactly one record under the id "<repo>/<path>", with
\* the vector written, and every other record as it was
UpsertOverwrites ==
    pc = "upsert" =>
        LET id == repos[ri] \o <<"/">> \o prioritized_files[fi].file
        IN  /\ Cardinality({k \in 1..Len(index') : index'[k].id = id}) = 1
            /\ \A k \in 1..Len(index') :
                  index'[k].id = id => index'[k].vector = embedding
            /\ \A k \in 1..Len(index) :
                  index[k].id # id => index'[k] = index[k]
            /\ { index'[k].id : k \in 1..Len(index') }
                  = { index[k].id : k \in 1..Len(index) } \cup {id}

\* no step of a later run changes the index
RerunLeavesIndex == run > 1 => index' = index

\* C9: index writes are idempotent.  The record id is "<repo>/<path>"; the
\* index never holds two records with one id; an upsert leaves exactly the
\* record written under its id and every other record as it was;
\* upserting that same record again changes nothing; and a further run of
\* the program with the same input over the unchanged upstream leaves the
\* index as the run before left it.
C9_IdempotentIndexWrites ==
    /\ [](NoDuplicateIds /\ UpsertTwiceIsOnce)
    /\ [][UpsertOverwrites /\ RerunLeavesIndex]_vars

\* a second run has upserted again and the index holds two records
C9_Witness ==
    /\ run = 2
    /\ pc = "done"
    /\ Len(index) = 2
    /\ Len(SelectSeq(calls, LAMBDA c : c.op = "upsert")) = 2

\* the decoded text of a content response, when it has one
HasText(resp) ==
    /\ resp.status = 200
    /\ resp.padOk
    /\ Utf8Decode(resp.bytes).ok
    /\ Utf8Decode(resp.bytes).text # << >>

\* C10: every record of the index has the id "<repo>/<path>" of a
\* repository on the enumerated page and of a blob entry of the tree that
\* repository was listed from, with an allow-listed extension and a size
\* below 1024 KB, whose content request answered with a non-empty text,
\* and its vector is the embedding of that text; a file whose content
\* request failed or gave an empty text has no record; and every upsert
\* call directly follows the embedding call for the same file, which
\* directly follows the successful content request for it.
C10_IndexedFilesWereSelectedAndFetched ==
    /\ \A k \in 1..Len(index) :
          \E r \in Range(reposResp.pages[1]) : \E b \in {"main", "master"} :
              /\ <<r, b>> \in DOMAIN treeResp
              /\ treeResp[<<r, b>>].status = 200
              /\ \E e \in Range(treeResp[<<r, b>>].tree) :
                    /\ QualifiesBlob(e, 1024)
                    /\ index[k].id = r \o <<"/">> \o e.path
                    /\ index[k].metadata
                          = [repo_name |-> r, file_path |-> e.path]
                    /\ <<r, e.path>> \in DOMAIN contentResp
                    /\ HasText(contentResp[<<r, e.path>>])
                    /\ index[k].vector = <<"codebert">>
                          \o Utf8Decode(contentResp[<<r, e.path>>].bytes).text
    /\ \A key \in DOMAIN contentResp :
          ~HasText(contentResp[key]) =>
              \A k \in 1..Len(index) :
                  index[k].id # key[1] \o <<"/">> \o key[2]
    /\ \A n \in 1..Len(calls) :
          /\ calls[n].op = "upsert" =>
                /\ n > 2
                /\ calls[n - 1] = [calls[n] EXCEPT !.op = "embed"]
          /\ calls[n].op = "embed" =>
                /\ n > 1
                /\ calls[n - 1]
                      = [calls[n] EXCEPT !.op = "contents", !.status = 200]

\* one file of the repository was indexed, one was skipped for an empty
\* text after a 200 answer
C10_Witness ==
    /\ pc = "done"
    /\ Len(index) = 1
    /\ Len(prioritized_files) = 2
    /\ \E key \in DOMAIN contentResp :
          /\ contentResp[key].status = 200
          /\ contentResp[key].padOk
          /\ contentResp[key].bytes = << >>
    /\ Len(SelectSeq(calls, LAMBDA c : c.op = "contents")) = 2
    /\ Len(SelectSeq(calls, LAMBDA c : c.op = "upsert")) = 1

====
